---- MODULE Spec2Model ----
(***************************************************************************)
(* Model of autolysis.py: the per-dataset pipeline                         *)
(*   load_data -> makedirs -> analyze_data -> visualize_data ->            *)
(*   generate_markdown_report                                              *)
(* driven by main() over the fixed `datasets` mapping, behind the          *)
(* AIPROXY_TOKEN gate.                                                     *)
(*                                                                         *)
(* Conventions.  A path is the sequence of its components.  A Python       *)
(* optional value is <<>> (None) or <<v>>.  A DataFrame is the sequence of *)
(* its columns' dtypes.  The process state is pc (the statement main is    *)
(* about to run) and exitStatus (<<>> while running, <<n>> once ended).    *)
(***************************************************************************)
EXTENDS Integers, Sequences, FiniteSets, TLC

\* Largest number of columns of an input file that is explored.
MaxCols == 1

VARIABLES
    environ,     \* os.getenv("AIPROXY_TOKEN") after load_dotenv(): <<>> or <<value>>
    pc,          \* "start", "mkroot", a loop stage, or "exited"
    i,           \* position in datasets.items() of the dataset being processed
    data,        \* main's local `data`: <<>> (unbound/None) or <<DataFrame>>
    dirs,        \* directories created by os.makedirs in this run
    files,       \* artifacts written in this run: [path, by, complete]
    figs,        \* pyplot's open figures, oldest first; the last one is current
    log,         \* lines printed so far
    exitStatus,  \* <<>> while running, else <<process exit status>>
    trace,       \* history: the steps main has invoked, <<stage, dataset name>>
    raisedIn,    \* history: <<stage, dataset name>> of every call in which an Exception was raised
    lastLoad     \* history: the latest load_data call [kind, path, attempts, exit, log]

vars == <<environ, pc, i, data, dirs, files, figs, log, exitStatus, trace, raisedIn, lastLoad>>

--------------------------------------------------------------------------
\* Helpers

Last(s) == s[Len(s)]

Front(s) == SubSeq(s, 1, Len(s) - 1)

SeqToSet(s) == {s[k] : k \in DOMAIN s}

\* os.path.join(a, b) for a relative single-component b
join(a, b) == Append(a, b)

\* os.path.dirname
Parent(p) == Front(p)

\* Sequences over S of length lo..hi
SeqsOf(S, lo, hi) == UNION {[1..n -> S] : n \in lo..hi}

--------------------------------------------------------------------------
\* Program constants

\* main(): the datasets mapping, in dict (insertion) order
datasets ==
    << [name |-> "goodreads", file_path |-> "C:/Users/Rohit/goodreads.csv"],
       [name |-> "happiness", file_path |-> "C:/Users/Rohit/happiness.csv"],
       [name |-> "media",     file_path |-> "C:/Users/Rohit/media.csv"] >>

\* main(): output_dir = "results"
output_dir == <<"results">>

\* the dtypes visualize_data selects
NumericDtypes == {"float64", "int64"}

\* dtypes pandas.read_csv infers for a column
Dtypes == {"int64", "float64", "object"}

\* What a file on disk can be, as far as load_data can tell.
FileKinds == {"utf8", "latin1", "latin1_malformed", "missing", "empty", "malformed"}

\* A DataFrame read from a file has at least one column.
Frames == SeqsOf(Dtypes, 1, MaxCols)

--------------------------------------------------------------------------
\* Python runtime

\* `not x` for an optional string: None and "" are falsy
\* (mutant: tests only `is None`)
FalsyNoneOnly(opt) == opt = <<>>

Falsy(opt) == opt = <<>> \/ opt[1] = ""

\* exit status of a process ended by SystemExit(code); exit() passes code None
SystemExitStatus(code) == IF code = <<>> THEN 0 ELSE code[1]

\* exit status of a process ended by an uncaught Exception
UncaughtStatus == 1

\* the argument of every exit() call in the source: none
exit_arg == <<>>

--------------------------------------------------------------------------
\* pandas.read_csv(file_path, encoding=enc) on a file of the given kind:
\* the exception class raised, or "ok"
read_csv(kind, enc) ==
    CASE kind = "missing"   -> "FileNotFoundError"
      [] kind = "empty"     -> "EmptyDataError"
      [] kind = "malformed" -> "ParserError"
      [] kind = "utf8"      -> "ok"
      [] kind = "latin1"    -> IF enc = "utf-8" THEN "UnicodeDecodeError" ELSE "ok"
      [] kind = "latin1_malformed" ->
             IF enc = "utf-8" THEN "UnicodeDecodeError" ELSE "ParserError"

\* (mutant: a failed load prints its message but does not exit; the function
\* falls off its end and returns None)
load_data_no_exit(kind, frame, file_path) ==
    LET r1 == read_csv(kind, "utf-8")
        r2 == read_csv(kind, "ISO-8859-1")
    IN  IF r1 = "ok" THEN
            [attempts |-> <<"utf-8">>, exit |-> FALSE, data |-> <<frame>>,
             log |-> << <<"Data loaded successfully from ", file_path>> >>]
        ELSE IF r1 = "UnicodeDecodeError" /\ r2 = "ok" THEN
            [attempts |-> <<"utf-8", "ISO-8859-1">>, exit |-> FALSE, data |-> <<frame>>,
             log |-> << <<"Error: File encoding not supported. Trying 'ISO-8859-1'.">>,
                        <<"Data loaded successfully from ", file_path,
                          " with 'ISO-8859-1' encoding.">> >>]
        ELSE
            [attempts |-> IF r1 = "UnicodeDecodeError"
                          THEN <<"utf-8", "ISO-8859-1">> ELSE <<"utf-8">>,
             exit |-> FALSE, data |-> <<>>,
             log |-> << <<"Error loading file: ", r1>> >>]

\* (mutant: the ISO-8859-1 retry is made after any failure of the first read)
load_data_retry_any(kind, frame, file_path) ==
    LET r1 == read_csv(kind, "utf-8")
        r2 == read_csv(kind, "ISO-8859-1")
    IN  IF r1 = "ok" THEN
            [attempts |-> <<"utf-8">>, exit |-> FALSE, data |-> <<frame>>,
             log |-> << <<"Data loaded successfully from ", file_path>> >>]
        ELSE IF r2 = "ok" THEN
            [attempts |-> <<"utf-8", "ISO-8859-1">>, exit |-> FALSE, data |-> <<frame>>,
             log |-> << <<"Error: File encoding not supported. Trying 'ISO-8859-1'.">>,
                        <<"Data loaded successfully from ", file_path,
                          " with 'ISO-8859-1' encoding.">> >>]
        ELSE
            [attempts |-> <<"utf-8", "ISO-8859-1">>, exit |-> TRUE, data |-> <<>>,
             log |-> << <<"Error: File encoding not supported. Trying 'ISO-8859-1'.">>,
                        <<"Error loading file: ", r2>> >>]

\* load_data(file_path) on a file of the given kind holding the given frame:
\* the encodings tried in order, whether exit() was called, the value returned
\* and the lines printed
load_data(kind, frame, file_path) ==
    LET r1 == read_csv(kind, "utf-8")
        r2 == read_csv(kind, "ISO-8859-1")
    IN  CASE r1 = "ok" ->
                [attempts |-> <<"utf-8">>, exit |-> FALSE, data |-> <<frame>>,
                 log |-> << <<"Data loaded successfully from ", file_path>> >>]
          [] r1 = "UnicodeDecodeError" ->
                IF r2 = "ok" THEN
                    [attempts |-> <<"utf-8", "ISO-8859-1">>, exit |-> FALSE,
                     data |-> <<frame>>,
                     log |-> << <<"Error: File encoding not supported. Trying 'ISO-8859-1'.">>,
                                <<"Data loaded successfully from ", file_path,
                                  " with 'ISO-8859-1' encoding.">> >>]
                ELSE
                    [attempts |-> <<"utf-8", "ISO-8859-1">>, exit |-> TRUE,
                     data |-> <<>>,
                     log |-> << <<"Error: File encoding not supported. Trying 'ISO-8859-1'.">>,
                                <<"Error loading file: ", r2>> >>]
          [] r1 = "FileNotFoundError" ->
                [attempts |-> <<"utf-8">>, exit |-> TRUE, data |-> <<>>,
                 log |-> << <<"Error: File not found.">> >>]
          [] r1 = "EmptyDataError" ->
                [attempts |-> <<"utf-8">>, exit |-> TRUE, data |-> <<>>,
                 log |-> << <<"Error: File is empty.">> >>]
          [] OTHER ->
                [attempts |-> <<"utf-8">>, exit |-> TRUE, data |-> <<>>,
                 log |-> << <<"Error loading file: ", r1>> >>]

--------------------------------------------------------------------------
\* analyze_data

\* The calls of analyze_data at which an Exception can be raised
AnalyzeFaults == {"none", "info", "describe", "isnull"}

\* analyze_data(data): the lines printed and whether an Exception leaves the
\* function (it has no try block, so whatever is raised inside propagates).
\* On None the first attribute access, data.info, raises.
analyze_data(d, fault) ==
    LET at == IF d = <<>> THEN "info" ELSE fault
    IN  CASE at = "info" ->
                [log |-> << <<"--- Dataset Overview ---">> >>, raised |-> TRUE]
          [] at = "describe" ->
                [log |-> << <<"--- Dataset Overview ---">>, <<"info">>,
                            <<"--- Summary Statistics ---">> >>, raised |-> TRUE]
          [] at = "isnull" ->
                [log |-> << <<"--- Dataset Overview ---">>, <<"info">>,
                            <<"--- Summary Statistics ---">>, <<"describe">>,
                            <<"--- Missing Values ---">> >>, raised |-> TRUE]
          [] OTHER ->
                [log |-> << <<"--- Dataset Overview ---">>, <<"info">>,
                            <<"--- Summary Statistics ---">>, <<"describe">>,
                            <<"--- Missing Values ---">>, <<"isnull">> >>,
                 raised |-> FALSE]

--------------------------------------------------------------------------
\* pyplot's global figure state

\* plt.figure() / the figure a seaborn grid creates: a new figure, made current
new_figure(fs, by) ==
    LET nums == {fs[k].num : k \in DOMAIN fs}
        n    == IF nums = {} THEN 1
                ELSE (CHOOSE m \in nums : \A o \in nums : o <= m) + 1
    IN  Append(fs, [num |-> n, by |-> by])

\* plt.close(): closes the current figure
close(fs) == IF fs = <<>> THEN fs ELSE Front(fs)

--------------------------------------------------------------------------
\* visualize_data

\* (mutant: the dtype filter is dropped, every column is kept)
select_dtypes_all(frame, include) == frame

\* DataFrame.select_dtypes(include=...)
select_dtypes(frame, include) == SelectSeq(frame, LAMBDA d : d \in include)

\* DataFrame.empty, for a frame with at least one row
empty(frame) == Len(frame) = 0

\* The calls inside visualize_data's if-blocks at which an Exception can be raised
VisualizeFaults == {"none", "heatmap", "savefig_heatmap", "pairplot", "savefig_pairplot"}

\* The try block of visualize_data(data, output_dir), run with open figures fs
\* on behalf of dataset `by`: the files written, the figures left open, the
\* lines printed, and whether an Exception was raised inside the block.
\* sns.pairplot is taken to fail while drawing, after its grid's figure exists.
visualize_try(d, out, fault, fs, by) ==
    LET heatmap_path  == join(out, "correlation_heatmap.png")
        pairplot_path == join(out, "pairplot.png")
        numeric_data  == select_dtypes(d[1], NumericDtypes)
        opened        == new_figure(fs, by)
        saved1        == <<"Correlation heatmap saved to ", heatmap_path>>
        saved2        == <<"Pairplot saved to ", pairplot_path>>
    IN  IF d = <<>> THEN
            [written |-> {}, figs |-> fs, log |-> <<>>, error |-> TRUE]
        ELSE IF empty(numeric_data) THEN
            [written |-> {}, figs |-> fs, log |-> <<>>, error |-> FALSE]
        ELSE IF fault \in {"heatmap", "savefig_heatmap"} THEN
            [written |-> {}, figs |-> opened, log |-> <<>>, error |-> TRUE]
        ELSE IF fault \in {"pairplot", "savefig_pairplot"} THEN
            [written |-> {heatmap_path}, figs |-> new_figure(close(opened), by),
             log |-> <<saved1>>, error |-> TRUE]
        ELSE
            [written |-> {heatmap_path, pairplot_path},
             figs |-> close(new_figure(close(opened), by)),
             log |-> <<saved1, saved2>>, error |-> FALSE]

\* (mutant: no except clause, an Exception raised inside leaves the function)
visualize_data_uncaught(d, out, fault, fs, by) ==
    LET r == visualize_try(d, out, fault, fs, by)
    IN  [written |-> r.written, figs |-> r.figs, log |-> r.log,
         error |-> r.error, raised |-> r.error]

\* visualize_data(data, output_dir): the try block, with `except Exception`
\* printing the error and returning
visualize_data(d, out, fault, fs, by) ==
    LET r == visualize_try(d, out, fault, fs, by)
    IN  [written |-> r.written, figs |-> r.figs,
         log |-> IF r.error
                 THEN Append(r.log, <<"Error creating visualizations: ", fault>>)
                 ELSE r.log,
         error |-> r.error, raised |-> FALSE]

--------------------------------------------------------------------------
\* generate_markdown_report

\* Where an Exception can be raised: opening README.md, or writing to it
ReportFaults == {"none", "open", "write"}

\* generate_markdown_report(data, output_dir): the file written ([path,
\* complete]; open(..., "w") creates it, so a failed write leaves it partial),
\* the lines printed, whether an Exception was raised inside and whether one
\* leaves the function.  On None, data.shape raises after the file is open.
generate_markdown_report(d, out, fault) ==
    LET report_path == join(out, "README.md")
        at          == IF d = <<>> /\ fault = "none" THEN "write" ELSE fault
    IN  CASE at = "open" ->
                [written |-> {},
                 log |-> << <<"Error generating Markdown report: ", at>> >>,
                 error |-> TRUE, raised |-> FALSE]
          [] at = "write" ->
                [written |-> {[path |-> report_path, complete |-> FALSE]},
                 log |-> << <<"Error generating Markdown report: ", at>> >>,
                 error |-> TRUE, raised |-> FALSE]
          [] OTHER ->
                [written |-> {[path |-> report_path, complete |-> TRUE]},
                 log |-> << <<"Markdown report saved to ", report_path>> >>,
                 error |-> FALSE, raised |-> FALSE]

--------------------------------------------------------------------------
\* main

\* (mutant: the subdirectory is created before the file is loaded)
LoopBodyDirFirst == <<"mkdir", "load", "analyze", "visualize", "report">>

\* The statements of the for loop's body, in source order
LoopBody == <<"load", "mkdir", "analyze", "visualize", "report">>

\* (mutant: every dataset writes into the results root)
DatasetDirRoot(name) == output_dir

\* dataset_dir = os.path.join(output_dir, name)
DatasetDir(name) == join(output_dir, name)

\* exit status of a process whose main() returns
NormalStatus == 0

name_i == datasets[i].name

PosInBody(stage) == CHOOSE k \in DOMAIN LoopBody : LoopBody[k] = stage

\* Control passes from a statement of the loop body to the next one, to the
\* next iteration, or out of the loop and of main.
Advance(stage) ==
    IF PosInBody(stage) < Len(LoopBody) THEN
        /\ pc' = LoopBody[PosInBody(stage) + 1]
        /\ UNCHANGED <<i, exitStatus>>
    ELSE IF i < Len(datasets) THEN
        /\ pc' = LoopBody[1]
        /\ i' = i + 1
        /\ UNCHANGED exitStatus
    ELSE
        /\ pc' = "exited"
        /\ exitStatus' = <<NormalStatus>>
        /\ UNCHANGED i

\* An Exception propagates out of main: traceback, the process ends
Crash ==
    /\ pc' = "exited"
    /\ exitStatus' = <<UncaughtStatus>>
    /\ UNCHANGED i

\* exit() is called: SystemExit ends the process
Exit ==
    /\ pc' = "exited"
    /\ exitStatus' = <<SystemExitStatus(exit_arg)>>
    /\ UNCHANGED i

Init ==
    /\ environ \in {<<>>, <<"">>, <<"token">>}
    /\ pc = "start"
    /\ i = 1
    /\ data = <<>>
    /\ dirs = {}
    /\ files = {}
    /\ figs = <<>>
    /\ log = <<>>
    /\ exitStatus = <<>>
    /\ trace = <<>>
    /\ raisedIn = {}
    /\ lastLoad = [kind |-> "none", path |-> "", attempts |-> <<>>, exit |-> FALSE,
                   log |-> <<>>]

\* aip_token = os.getenv("AIPROXY_TOKEN"); if not aip_token: print; exit()
CheckToken ==
    /\ pc = "start"
    /\ IF Falsy(environ)
       THEN /\ log' = Append(log, <<"Error: AIPROXY_TOKEN environment variable not set.">>)
            /\ Exit
       ELSE /\ pc' = "mkroot"
            /\ UNCHANGED <<log, i, exitStatus>>
    /\ UNCHANGED <<environ, data, dirs, files, figs, trace, raisedIn, lastLoad>>

\* os.makedirs(output_dir, exist_ok=True), then the loop is entered
MakeResultsRoot ==
    /\ pc = "mkroot"
    /\ dirs' = dirs \cup {output_dir}
    /\ pc' = LoopBody[1]
    /\ UNCHANGED <<environ, i, data, files, figs, log, exitStatus, trace, raisedIn, lastLoad>>

\* print(f"\nProcessing dataset: {name}") on entering the body
Banner(stage) ==
    IF stage = LoopBody[1] THEN << <<"Processing dataset: ", name_i>> >> ELSE <<>>

\* data = load_data(file_path)
Load ==
    /\ pc = "load"
    /\ \E kind \in FileKinds, frame \in Frames :
         LET r == load_data(kind, frame, datasets[i].file_path)
         IN  /\ log' = log \o Banner("load") \o r.log
             /\ lastLoad' = [kind |-> kind, path |-> datasets[i].file_path,
                              attempts |-> r.attempts, exit |-> r.exit, log |-> r.log]
             /\ trace' = Append(trace, <<"load", name_i>>)
             /\ IF r.exit
                THEN Exit /\ UNCHANGED data
                ELSE Advance("load") /\ data' = r.data
    /\ UNCHANGED <<environ, dirs, files, figs, raisedIn>>

\* os.makedirs(dataset_dir, exist_ok=True)
MakeDatasetDir ==
    /\ pc = "mkdir"
    /\ dirs' = dirs \cup {DatasetDir(name_i)}
    /\ log' = log \o Banner("mkdir")
    /\ trace' = Append(trace, <<"mkdir", name_i>>)
    /\ Advance("mkdir")
    /\ UNCHANGED <<environ, data, files, figs, raisedIn, lastLoad>>

\* analyze_data(data)
Analyze ==
    /\ pc = "analyze"
    /\ \E fault \in AnalyzeFaults :
         LET r == analyze_data(data, fault)
         IN  /\ log' = log \o r.log
             /\ trace' = Append(trace, <<"analyze", name_i>>)
             /\ IF r.raised
                THEN Crash /\ raisedIn' = raisedIn \cup {<<"analyze", name_i>>}
                ELSE Advance("analyze") /\ UNCHANGED raisedIn
    /\ UNCHANGED <<environ, data, dirs, files, figs, lastLoad>>

\* visualize_data(data, dataset_dir)
Visualize ==
    /\ pc = "visualize"
    /\ \E fault \in VisualizeFaults :
         LET r == visualize_data(data, DatasetDir(name_i), fault, figs, name_i)
         IN  /\ log' = log \o r.log
             /\ trace' = Append(trace, <<"visualize", name_i>>)
             /\ files' = files \cup
                    {[path |-> p, by |-> name_i, complete |-> TRUE] : p \in r.written}
             /\ figs' = r.figs
             /\ raisedIn' = IF r.error THEN raisedIn \cup {<<"visualize", name_i>>}
                            ELSE raisedIn
             /\ IF r.raised THEN Crash ELSE Advance("visualize")
    /\ UNCHANGED <<environ, data, dirs, lastLoad>>

\* generate_markdown_report(data, dataset_dir)
Report ==
    /\ pc = "report"
    /\ \E fault \in ReportFaults :
         LET r == generate_markdown_report(data, DatasetDir(name_i), fault)
         IN  /\ log' = log \o r.log
             /\ trace' = Append(trace, <<"report", name_i>>)
             /\ files' = files \cup
                    {[path |-> w.path, by |-> name_i, complete |-> w.complete] :
                         w \in r.written}
             /\ raisedIn' = IF r.error THEN raisedIn \cup {<<"report", name_i>>}
                            ELSE raisedIn
             /\ IF r.raised THEN Crash ELSE Advance("report")
    /\ UNCHANGED <<environ, data, dirs, figs, lastLoad>>

Next ==
    \/ CheckToken
    \/ MakeResultsRoot
    \/ Load
    \/ MakeDatasetDir
    \/ Analyze
    \/ Visualize
    \/ Report

Spec == Init /\ [][Next]_vars

--------------------------------------------------------------------------
\* Properties

Names == {datasets[k].name : k \in DOMAIN datasets}

Events == SeqToSet(trace)

Paths == {f.path : f \in files}

\* The file of the latest load_data call could not be loaded: not found,
\* empty, or unparsable under UTF-8 and, where it is tried, under ISO-8859-1
LoadFailure == lastLoad.kind \in {"missing", "empty", "malformed", "latin1_malformed"}

TokenAbsent == environ = <<>> \/ environ = <<"">>

\* C1: when load_data fails for the k-th dataset the process has terminated,
\* the failing load is the last step ever taken, no directory was created and
\* no stage other than that load was run for dataset k or any later dataset,
\* and no step ever removes an artifact or directory already written.
C1_LoaderFailureFatal ==
    /\ [](LoadFailure =>
            /\ pc = "exited"
            /\ exitStatus # <<>>
            /\ Last(trace) = <<"load", name_i>>
            /\ \A k \in i..Len(datasets) :
                 /\ <<"results", datasets[k].name>> \notin dirs
                 /\ \A f \in files : f.by # datasets[k].name
                 /\ \A e \in Events :
                      e[2] = datasets[k].name => (k = i /\ e[1] = "load"))
    /\ [][files \subseteq files' /\ dirs \subseteq dirs']_vars

\* C1 witness: the second dataset's load failed after the first dataset's
\* three artifacts were written, and they are still there.
C1_Witness ==
    /\ LoadFailure
    /\ i = 2
    /\ pc = "exited"
    /\ Cardinality({f \in files : f.by = datasets[1].name}) = 3

\* C2: an Exception raised inside analyze_data does not end the run: the
\* process is not terminated with the failing analyze call as its last step.
C2_AnalyzerContained ==
    \A n \in Names :
        <<"analyze", n>> \in raisedIn =>
            ~(pc = "exited" /\ Last(trace) = <<"analyze", n>>)

\* C3: a step in which visualize_data raises inside leaves the process running
\* with the Reporter of the same dataset next and the error logged; a step in
\* which generate_markdown_report raises inside logs the error and passes to
\* the next dataset's first step, or after the last dataset ends the run with
\* status 0; and a run that was ended neither by the token gate, a load
\* failure nor an Exception out of analyze_data has run the Reporter for every
\* dataset and ended with status 0.
C3_VisualizerReporterRecoverable ==
    /\ [][\A n \in Names :
            /\ <<"visualize", n>> \in raisedIn' \ raisedIn =>
                 /\ n = name_i
                 /\ exitStatus' = <<>>
                 /\ pc' = "report"
                 /\ i' = i
                 /\ Last(log')[1] = "Error creating visualizations: "
            /\ <<"report", n>> \in raisedIn' \ raisedIn =>
                 /\ n = name_i
                 /\ Last(log')[1] = "Error generating Markdown report: "
                 /\ IF i < Len(datasets)
                    THEN exitStatus' = <<>> /\ pc' = "load" /\ i' = i + 1
                    ELSE exitStatus' = <<0>> /\ pc' = "exited"]_vars
    /\ []((/\ pc = "exited"
           /\ ~TokenAbsent
           /\ ~LoadFailure
           /\ \A n \in Names : <<"analyze", n>> \notin raisedIn)
          => /\ exitStatus = <<0>>
             /\ \A n \in Names : <<"report", n>> \in Events)

\* C3 witness: the first dataset's Visualizer and Reporter both failed, and
\* the run went on through the last dataset's Reporter and ended with status 0.
C3_Witness ==
    /\ <<"visualize", datasets[1].name>> \in raisedIn
    /\ <<"report", datasets[1].name>> \in raisedIn
    /\ <<"report", datasets[Len(datasets)].name>> \in Events
    /\ pc = "exited"
    /\ exitStatus = <<0>>

\* C4: with AIPROXY_TOKEN unset or empty the run never gets past the gate: no
\* dataset is loaded, no directory is created, no artifact is written, and
\* once the gate has run the process has ended; with a non-empty token the
\* gate's abort message is never printed and the run goes on to create the
\* results root.
C4_CredentialGate ==
    /\ TokenAbsent =>
         /\ pc \in {"start", "exited"}
         /\ trace = <<>>
         /\ data = <<>>
         /\ dirs = {}
         /\ files = {}
         /\ (pc = "exited") = (exitStatus # <<>>)
    /\ ~TokenAbsent =>
         /\ <<"Error: AIPROXY_TOKEN environment variable not set.">> \notin SeqToSet(log)
         /\ pc \notin {"start", "mkroot"} => <<"results">> \in dirs

\* C4 witness: the gate has aborted a run whose token is the empty string.
C4_Witness ==
    /\ environ = <<"">>
    /\ pc = "exited"
    /\ log # <<>>

\* C5: a run ended by a fatal condition (absent token, load failure) has a
\* non-zero exit status; every other ended run has status 0 and has processed
\* all the datasets.
C5_ExitBehaviour ==
    pc = "exited" =>
        IF TokenAbsent \/ LoadFailure
        THEN exitStatus[1] # 0
        ELSE /\ exitStatus = <<0>>
             /\ \A n \in Names : <<"report", n>> \in Events

\* C6 (as stated): the subdirectory of every dataset whose Loader has been
\* invoked exists.
C6_DirBeforeLoader ==
    \A k \in DOMAIN trace :
        trace[k][1] = "load" => <<"results", trace[k][2]>> \in dirs

\* The per-dataset step order the code follows
C6_Order == <<"load", "mkdir", "analyze", "visualize", "report">>

C6_Canonical ==
    [k \in 1..(Len(C6_Order) * Len(datasets)) |->
        << C6_Order[((k - 1) % Len(C6_Order)) + 1],
           datasets[((k - 1) \div Len(C6_Order)) + 1].name >>]

\* C6 (amended): the steps taken so far are a prefix of load, mkdir, analyze,
\* visualize, report for the first dataset, then the same for the second, and
\* so on; and a dataset's subdirectory exists exactly when its mkdir step has
\* been taken (so not while its Loader runs, and not after its load failed).
C6_StageOrder ==
    /\ Len(trace) <= Len(C6_Canonical)
    /\ \A k \in DOMAIN trace : trace[k] = C6_Canonical[k]
    /\ \A n \in Names : (<<"results", n>> \in dirs) <=> (<<"mkdir", n>> \in Events)

\* C6 witness: the second dataset's load failed after the first dataset's five
\* steps; the first subdirectory exists and the second does not.
C6_Witness ==
    /\ LoadFailure
    /\ Len(trace) = Len(C6_Order) + 1
    /\ <<"results", datasets[1].name>> \in dirs
    /\ <<"results", datasets[2].name>> \notin dirs

C7_ArtifactNames == {"correlation_heatmap.png", "pairplot.png", "README.md"}

\* C7: every artifact written while processing dataset d has the path
\* results/d/<artifact name>, its directory exists, and that directory
\* already existed in the state before the step that wrote the artifact.
C7_OutputIsolation ==
    /\ [](\A f \in files :
            /\ Len(f.path) = 3
            /\ f.path[1] = "results"
            /\ f.path[2] = f.by
            /\ f.path[3] \in C7_ArtifactNames
            /\ <<f.path[1], f.path[2]>> \in dirs)
    /\ [][\A f \in files' \ files : Parent(f.path) \in dirs]_vars

\* C7 witness: all three artifacts of two different datasets are written.
C7_Witness ==
    /\ Cardinality({f \in files : f.by = datasets[1].name}) = 3
    /\ Cardinality({f \in files : f.by = datasets[2].name}) = 3

\* C8: no figure opened by a visualize_data call that has returned is still
\* open.
C8_FiguresReleased ==
    \A k \in DOMAIN figs : <<"visualize", figs[k].by>> \notin Events

C9_IsNumeric(frame) == \E k \in DOMAIN frame : frame[k] \in {"float64", "int64"}

C9_Heatmap(n) == <<"results", n, "correlation_heatmap.png">> \in Paths

C9_Pairplot(n) == <<"results", n, "pairplot.png">> \in Paths

C9_Returned == trace # <<>> /\ Last(trace) = <<"visualize", name_i>> /\ data # <<>>

\* C9 (as stated): when visualize_data has just returned, a dataset without
\* numeric columns has neither image and no error was raised, and a dataset
\* with a numeric column has both images.
C9_NumericGating ==
    C9_Returned =>
        IF C9_IsNumeric(data[1])
        THEN C9_Heatmap(name_i) /\ C9_Pairplot(name_i)
        ELSE /\ ~C9_Heatmap(name_i)
             /\ ~C9_Pairplot(name_i)
             /\ <<"visualize", name_i>> \notin raisedIn

\* C9 (amended): when visualize_data has just returned, a dataset without
\* numeric columns has neither image and no error was raised; a dataset with a
\* numeric column has both images exactly when no error was raised inside the
\* call, and never the pairplot without the heatmap.
C9_NumericGatingUnlessError ==
    C9_Returned =>
        IF C9_IsNumeric(data[1])
        THEN /\ (C9_Heatmap(name_i) /\ C9_Pairplot(name_i))
                    <=> (<<"visualize", name_i>> \notin raisedIn)
             /\ C9_Pairplot(name_i) => C9_Heatmap(name_i)
        ELSE /\ ~C9_Heatmap(name_i)
             /\ ~C9_Pairplot(name_i)
             /\ <<"visualize", name_i>> \notin raisedIn

\* C9 witness: visualize_data has just returned for a dataset with a numeric
\* column and both images are written.
C9_Witness ==
    /\ C9_Returned
    /\ C9_IsNumeric(data[1])
    /\ C9_Heatmap(name_i)
    /\ C9_Pairplot(name_i)

\* C10: in every load_data call the first read is UTF-8; there are at most two
\* reads; a second read is made exactly when the UTF-8 read raised
\* UnicodeDecodeError, and it is ISO-8859-1; any failure that is not followed
\* by a successful read ends the process; and the last line printed by a
\* successful call names ISO-8859-1 exactly when two reads were made.
C10_EncodingFallback ==
    lastLoad.attempts # <<>> =>
        LET a  == lastLoad.attempts
            r1 == read_csv(lastLoad.kind, "utf-8")
            r2 == read_csv(lastLoad.kind, "ISO-8859-1")
        IN  /\ a[1] = "utf-8"
            /\ Len(a) <= 2
            /\ (Len(a) = 2) <=> (r1 = "UnicodeDecodeError")
            /\ Len(a) = 2 => a[2] = "ISO-8859-1"
            /\ lastLoad.exit <=> (r1 # "ok" /\ ~(Len(a) = 2 /\ r2 = "ok"))
            /\ ~lastLoad.exit =>
                 Last(lastLoad.log) =
                    IF Len(a) = 2
                    THEN <<"Data loaded successfully from ", lastLoad.path,
                           " with 'ISO-8859-1' encoding.">>
                    ELSE <<"Data loaded successfully from ", lastLoad.path>>
            /\ lastLoad.exit =>
                 \A k \in DOMAIN lastLoad.log :
                    lastLoad.log[k][1] # "Data loaded successfully from "

\* C10 witness: a load succeeded on the ISO-8859-1 retry and the run went on.
C10_Witness ==
    /\ Len(lastLoad.attempts) = 2
    /\ ~lastLoad.exit
    /\ pc = "analyze"

====
